---- MODULE Spec2Model ----
(***************************************************************************)
(* Model of networkbuild/ModBoruvka.py: the modified Boruvka engine        *)
(* (modBoruvka), its union-find with budgets, member lists and queues      *)
(* (UnionFind), the heapq-backed PriorityQueue, the foreign nearest        *)
(* neighbour search (FNNd) and the segment test (line_intersection).       *)
(*                                                                         *)
(* Nodes are 0..n-1 (the kd-tree returns row numbers, which the code uses  *)
(* as node ids).  Coordinates are distinct points of a small integer grid  *)
(* laid at the equator; sq_dist is the squared planar distance, and        *)
(* hav_dist is the planar distance in units of 1/HavUnit of a grid step,   *)
(* rounded down (the great-circle length, to that resolution).             *)
(***************************************************************************)
EXTENDS Integers, Sequences, FiniteSets, TLC

\* ---- bounds of the checked instances ----
MaxNodes == 4
GridX == 2
GridY == 2
BudgetLevels == 1
BudgetStep == 30
SpinBound == 2
LayoutBudgetSteps == 2
MaxNet == 2

\* length of one grid step, in the units of hav_dist and of the budgets
HavUnit == 10

\* n, coords, budget: the graph T (node count, 'coords' and 'mv' attributes)
\* subgraphs: the UnionFind object; its children and queues map a node to the
\*   list / PriorityQueue OBJECT it refers to (objects are named by the node
\*   they were created for), so that aliasing after union is kept
\* k_cache: the remembered k of FNNd, per node
\* Et, rtree, Ep, state: the locals of modBoruvka; comps: the roots the for
\*   loop of the round still has to visit; iv: the node the first loop is at
\* fk: the k of a FNNd call that can no longer return (0 otherwise)
\* last: what the latest step of the commit loop did (history only)
\* gathered: the candidates pushed onto a round queue so far (history only)
\* merge: the locals of NetworkBuild.grid_settlement_merge (the grid's edges,
\*   the subgrids still to be seeded, fake_nodes, the fake node being added)
VARIABLES n, coords, budget, subgraphs, k_cache, Et, rtree, Ep, state,
          comps, iv, fk, pc, last, gathered, merge

vars == <<n, coords, budget, subgraphs, k_cache, Et, rtree, Ep, state,
          comps, iv, fk, pc, last, gathered, merge>>

V == 0 .. (n - 1)

\* ---------------------------------------------------------------------------
\* GeoMetric
\* ---------------------------------------------------------------------------
sq_dist(a, b) == (a[1] - b[1]) * (a[1] - b[1]) + (a[2] - b[2]) * (a[2] - b[2])

ISqrt(m) == CHOOSE r \in 0 .. m : r * r <= m /\ (r + 1) * (r + 1) > m

hav_dist(a, b) == ISqrt(HavUnit * HavUnit * sq_dist(a, b))

Min2(a, b) == IF a <= b THEN a ELSE b
Max2(a, b) == IF a >= b THEN a ELSE b

\* (xmin, ymin, xmax, ymax)
make_bounding_box(u, v) ==
    <<Min2(u[1], v[1]), Min2(u[2], v[2]), Max2(u[1], v[1]), Max2(u[2], v[2])>>

\* ---------------------------------------------------------------------------
\* heapq on a 1-based sequence; entries are <<priority, index, item>>
\* ---------------------------------------------------------------------------
RECURSIVE SeqLt(_, _, _)
SeqLt(a, b, i) ==
    IF i > Len(a) \/ i > Len(b) THEN Len(a) < Len(b)
    ELSE IF a[i] < b[i] THEN TRUE
    ELSE IF a[i] > b[i] THEN FALSE
    ELSE SeqLt(a, b, i + 1)

\* Python's tuple order on (priority, index, item)
EntryLt(a, b) ==
    \/ a[1] < b[1]
    \/ a[1] = b[1] /\ a[2] < b[2]
    \/ a[1] = b[1] /\ a[2] = b[2] /\ SeqLt(a[3], b[3], 1)

RECURSIVE siftdown(_, _, _, _)
siftdown(h, startpos, pos, newitem) ==
    IF pos > startpos /\ EntryLt(newitem, h[pos \div 2])
    THEN siftdown([h EXCEPT ![pos] = h[pos \div 2]], startpos, pos \div 2, newitem)
    ELSE [h EXCEPT ![pos] = newitem]

RECURSIVE siftup(_, _, _, _)
siftup(h, startpos, pos, newitem) ==
    LET c == 2 * pos
        r == c + 1
        child == IF r <= Len(h) /\ ~EntryLt(h[c], h[r]) THEN r ELSE c
    IN  IF c <= Len(h)
        THEN siftup([h EXCEPT ![pos] = h[child]], startpos, child, newitem)
        ELSE siftdown([h EXCEPT ![pos] = newitem], startpos, pos, newitem)

heappush_mut(h, x) == Append(h, x)

heappush(h, x) == siftdown(Append(h, x), 1, Len(h) + 1, x)

\* the entry heappop returns: the first one, whatever the order of the list
heappop_item(h) == h[1]

heappop_rest(h) ==
    LET lastelt == h[Len(h)]
        rest == SubSeq(h, 1, Len(h) - 1)
    IN  IF rest = <<>> THEN <<>>
        ELSE siftup([rest EXCEPT ![1] = lastelt], 1, 1, lastelt)

\* PriorityQueue.push on the pair (list, next index)
PQpush(q, idx, item, priority) ==
    [queue |-> heappush(q, <<priority, idx, item>>), index |-> idx + 1]

\* PriorityQueue.top: the item of the first entry, or <<>> for None
PQtop(q) == IF q = <<>> THEN <<>> ELSE q[1][3]

merge_loop_mut(q, idx, other) == [queue |-> q, index |-> idx]

\* the loop of PriorityQueue.merge: every entry of other is popped and pushed
\* onto self under a fresh index
RECURSIVE merge_loop(_, _, _)
merge_loop(q, idx, other) ==
    IF other = <<>> THEN [queue |-> q, index |-> idx]
    ELSE LET e == heappop_item(other)
             p == PQpush(q, idx, e[3], e[1])
         IN  merge_loop(p.queue, p.index, heappop_rest(other))

SeqRange(s) == {s[i] : i \in 1 .. Len(s)}

\* list(set(q)): the entries of q in an order the hash table decides
RECURSIVE Orders(_)
Orders(S) ==
    IF S = {} THEN {<<>>}
    ELSE UNION {{<<x>> \o rest : rest \in Orders(S \ {x})} : x \in S}

SetOrders(q) == Orders(SeqRange(q))

\* ---------------------------------------------------------------------------
\* UnionFind
\* ---------------------------------------------------------------------------
EmptyUF ==
    [parents |-> <<>>, weights |-> <<>>, mv |-> <<>>, children |-> <<>>,
     lists |-> <<>>, queues |-> <<>>, pq |-> <<>>]

RECURSIVE Root(_, _)
Root(par, x) == IF par[x] = x THEN x ELSE Root(par, par[x])

RECURSIVE PathOf(_, _)
PathOf(par, x) == IF par[x] = x THEN {x} ELSE {x} \cup PathOf(par, par[x])

\* UnionFind.__getitem__: registers an unknown object as a singleton, else
\* compresses the path to the root.  getitem_root is the value returned.
getitem(uf, x) ==
    IF x \notin DOMAIN uf.parents
    THEN [parents  |-> uf.parents @@ (x :> x),
          weights  |-> uf.weights @@ (x :> 1),
          mv       |-> uf.mv @@ (x :> budget[x]),
          children |-> uf.children @@ (x :> x),
          lists    |-> uf.lists @@ (x :> <<x>>),
          queues   |-> uf.queues @@ (x :> x),
          pq       |-> uf.pq @@ (x :> [queue |-> <<>>, index |-> 0])]
    ELSE [uf EXCEPT !.parents =
             [y \in DOMAIN uf.parents |->
                 IF y \in PathOf(uf.parents, x) THEN Root(uf.parents, x)
                 ELSE uf.parents[y]]]

getitem_root(uf, x) == IF x \notin DOMAIN uf.parents THEN x ELSE Root(uf.parents, x)

Heaviest_mut(uf, r1, r2) ==
    IF uf.weights[r1] < uf.weights[r2] \/ (uf.weights[r1] = uf.weights[r2] /\ r1 < r2)
    THEN r1 ELSE r2

\* max([(weights[r], r) for r in roots])[1]
Heaviest(uf, r1, r2) ==
    IF uf.weights[r1] > uf.weights[r2] \/ (uf.weights[r1] = uf.weights[r2] /\ r1 > r2)
    THEN r1 ELSE r2

union_mv_mut(uf, g1, g2, d) == uf.mv[g1] + uf.mv[g2]

\* the budget union records: from the mv entries of the two ARGUMENTS
union_mv(uf, g1, g2, d) == (uf.mv[g1] + uf.mv[g2]) - d

\* UnionFind.union(g1, g2, d) for g1, g2 in different sets; order is the
\* order list(set(queue)) leaves the merged queue in
union(uf0, g1, g2, d, order) ==
    LET uf1 == getitem(uf0, g1)
        uf  == getitem(uf1, g2)
        ra  == Root(uf.parents, g1)
        rb  == Root(uf.parents, g2)
        heaviest == Heaviest(uf, ra, rb)
        r   == IF ra # heaviest THEN ra ELSE rb
        newmv == union_mv(uf, g1, g2, d)
        lh  == uf.children[heaviest]
        qhv == uf.queues[heaviest]
        qr  == uf.queues[r]
        m   == merge_loop(uf.pq[qhv].queue, uf.pq[qhv].index, uf.pq[qr].queue)
    IN  [parents  |-> [uf.parents EXCEPT ![r] = heaviest],
         weights  |-> [uf.weights EXCEPT ![heaviest] = uf.weights[heaviest] + uf.weights[r]],
         mv       |-> [uf.mv EXCEPT ![heaviest] = newmv, ![r] = newmv],
         children |-> [uf.children EXCEPT ![r] = lh],
         lists    |-> [uf.lists EXCEPT ![lh] = uf.lists[lh] \o uf.lists[uf.children[r]]],
         queues   |-> [uf.queues EXCEPT ![r] = qhv],
         pq       |-> [uf.pq EXCEPT ![qr] = [queue |-> <<>>, index |-> uf.pq[qr].index],
                                    ![qhv] = [queue |-> order, index |-> m.index]]]

\* the merged queue before list(set(...)) reorders it
union_merged(uf0, g1, g2) ==
    LET uf == getitem(getitem(uf0, g1), g2)
        ra == Root(uf.parents, g1)
        rb == Root(uf.parents, g2)
        heaviest == Heaviest(uf, ra, rb)
        r  == IF ra # heaviest THEN ra ELSE rb
    IN  merge_loop(uf.pq[uf.queues[heaviest]].queue, uf.pq[uf.queues[heaviest]].index,
                   uf.pq[uf.queues[r]].queue).queue

\* connected_components(): the roots (the paths of all nodes are compressed)
AllCompressed(uf) ==
    [uf EXCEPT !.parents = [y \in DOMAIN uf.parents |-> Root(uf.parents, y)]]

Roots(uf) == {Root(uf.parents, x) : x \in DOMAIN uf.parents}

\* component_set(r): the list object of the root of r
component_set(uf, x) == uf.lists[uf.children[Root(uf.parents, x)]]

\* ---------------------------------------------------------------------------
\* SpatialIndex: the kd-tree and FNNd
\* ---------------------------------------------------------------------------
\* kdtree.query(b, k)[k-1]: the k-th nearest row to node v (v itself is the
\* first); row n, which is no node, when fewer than k rows exist
KthNearest(v, k) ==
    IF k > n THEN n
    ELSE CHOOSE w \in V :
            Cardinality({u \in V :
                \/ sq_dist(coords[v], coords[u]) < sq_dist(coords[v], coords[w])
                \/ /\ sq_dist(coords[v], coords[u]) = sq_dist(coords[v], coords[w])
                   /\ u < w}) = k - 1

FNNd_start_mut(kc, v) == IF v \in DOMAIN kc THEN kc[v] ELSE 3

FNNd_start(kc, v) == IF v \in DOMAIN kc THEN kc[v] ELSE 2

\* the while loop of FNNd from k on: the node found and the k it was found
\* at.  Past k = n every answer is row n, so the loop cannot end any more.
RECURSIVE FNNd_loop(_, _, _)
FNNd_loop(A, v, k) ==
    IF k > n THEN [found |-> FALSE, a |-> n, k |-> k]
    ELSE IF KthNearest(v, k) \in A THEN [found |-> TRUE, a |-> KthNearest(v, k), k |-> k]
    ELSE FNNd_loop(A, v, k + 1)

FNNd(kc, A, v) == FNNd_loop(A, v, FNNd_start(kc, v))

\* k_cache[str(b)] = k - 1
FNNd_cache(kc, v, k) == [x \in DOMAIN kc \cup {v} |-> IF x = v THEN k ELSE kc[x]]

\* ---------------------------------------------------------------------------
\* GeometryGuard: line_intersection
\* ---------------------------------------------------------------------------
Cross2(a, b) == a[1] * b[2] - a[2] * b[1]
Sub2(a, b) == <<a[1] - b[1], a[2] - b[2]>>

\* rtree.intersection(box): stored boxes that meet the query box
BoxesMeet(b1, b2) ==
    b1[1] <= b2[3] /\ b2[1] <= b1[3] /\ b1[2] <= b2[4] /\ b2[2] <= b1[4]

\* "allow intersection if lines share an endpoint"
SharesEndpoint(p1, p2, p3, p4) ==
    \/ p1 = p3 /\ p2 # p4
    \/ p1 = p4 /\ p2 # p3
    \/ p2 = p3 /\ p1 # p4
    \/ p2 = p4 /\ p1 # p3

\* a != b != c != d on booleans, as Python chains it
Chain4(a, b, c, d) == a # b /\ b # c /\ c # d

overlapping(p1, p2, p3, p4) ==
    \/ Chain4(p3[1] - p1[1] < 0, p3[1] - p2[1] < 0, p4[1] - p1[1] < 0, p4[1] - p2[1] < 0)
    \/ Chain4(p3[2] - p1[2] < 0, p3[2] - p2[2] < 0, p4[2] - p1[2] < 0, p4[2] - p2[2] < 0)

\* 0 <= num / den <= 1 for den # 0
UnitRatio(num, den) ==
    IF den > 0 THEN 0 <= num /\ num <= den ELSE den <= num /\ num <= 0

\* the body of the for loop for one stored segment: TRUE where it returns True
segment_hit(p1, p2, p3, p4) ==
    LET r == Sub2(p2, p1)
        s == Sub2(p4, p3)
        numerator == Cross2(Sub2(p3, p1), r)
        denominator == Cross2(r, s)
    IN  IF numerator = 0 /\ denominator = 0
        THEN overlapping(p1, p2, p3, p4) /\ ~SharesEndpoint(p1, p2, p3, p4)
        ELSE IF denominator = 0 THEN FALSE
        ELSE /\ UnitRatio(Cross2(Sub2(p3, p1), s), denominator)
             /\ UnitRatio(numerator, denominator)
             /\ ~SharesEndpoint(p1, p2, p3, p4)

line_intersection(rt, um, vm) ==
    \E e \in rt :
        /\ BoxesMeet(make_bounding_box(coords[um], coords[vm]),
                     make_bounding_box(coords[e[1]], coords[e[2]]))
        /\ segment_hit(coords[um], coords[vm], coords[e[1]], coords[e[2]])

\* ---------------------------------------------------------------------------
\* BoruvkaEngine: modBoruvka
\* ---------------------------------------------------------------------------
\* the queue object the handle of node x refers to
QueueOf(uf, x) == uf.pq[uf.queues[x]]

SetQueue(uf, x, q, idx) ==
    [uf EXCEPT !.pq = [uf.pq EXCEPT ![uf.queues[x]] = [queue |-> q, index |-> idx]]]

\* a set of integers as the ascending sequence a Python set of small ints
\* iterates in
RECURSIVE Ascending(_)
Ascending(S) ==
    IF S = {} THEN <<>>
    ELSE LET m == CHOOSE x \in S : \A y \in S : x <= y
         IN  <<m>> \o Ascending(S \ {m})

NoStep ==
    [kind |-> "none", um |-> 0, vm |-> 0, dm |-> 0, ru |-> 0, rv |-> 0,
     bu |-> 0, bv |-> 0, pruned |-> <<>>, roottop |-> <<>>]

\* the inner while loop of phase P1 on the queue of component C: stale tops
\* (vm inside the component) are popped and replaced by the foreign nearest
\* neighbour of their v
RECURSIVE gather_loop(_, _, _, _, _, _, _)
gather_loop(q, idx, kc, v, vm, cs, dj) ==
    IF vm \notin cs
    THEN [found |-> TRUE, queue |-> q, index |-> idx, kc |-> kc, v |-> v, vm |-> vm, k |-> 0]
    ELSE LET q1 == heappop_rest(q)
             f  == FNNd(kc, dj, v)
         IN  IF ~f.found
             THEN [found |-> FALSE, queue |-> q1, index |-> idx, kc |-> kc,
                   v |-> v, vm |-> vm, k |-> f.k]
             ELSE LET p == PQpush(q1, idx, <<v, f.a>>, sq_dist(coords[v], coords[f.a]))
                      t == PQtop(p.queue)
                  IN  gather_loop(p.queue, p.index, FNNd_cache(kc, v, f.k),
                                  t[1], t[2], cs, dj)

\* coords = np.row_stack(...), the kd-tree, the rtree and the UnionFind:
\* row_stack raises ValueError on an empty node set
Build ==
    /\ pc = "start"
    /\ pc' = IF n = 0 THEN "raise" ELSE "init"
    /\ UNCHANGED <<merge, n, coords, budget, subgraphs, k_cache, Et, rtree, Ep, state, comps, iv, fk, last, gathered>>

\* for v in V: the nearest neighbour of v is queued on v's singleton
InitNode ==
    /\ pc = "init"
    /\ iv < n
    /\ LET f == FNNd(k_cache, V, iv)
           uf == getitem(subgraphs, iv)
           root == getitem_root(subgraphs, iv)
           q == QueueOf(uf, root)
           p == PQpush(q.queue, q.index, <<iv, f.a>>, sq_dist(coords[iv], coords[f.a]))
       IN  IF f.found
           THEN /\ k_cache' = FNNd_cache(k_cache, iv, f.k)
                /\ subgraphs' = SetQueue(uf, root, p.queue, p.index)
                /\ iv' = iv + 1
                /\ UNCHANGED <<pc, fk>>
           ELSE /\ pc' = "FNNd"
                /\ fk' = f.k
                /\ UNCHANGED <<k_cache, subgraphs, iv>>
    /\ UNCHANGED <<merge, n, coords, budget, Et, rtree, Ep, state, comps, last, gathered>>

\* Et = []
InitDone ==
    /\ pc = "init"
    /\ iv = n
    /\ Et' = <<>>
    /\ pc' = "while"
    /\ UNCHANGED <<merge, n, coords, budget, subgraphs, k_cache, rtree, Ep, state, comps, iv, fk, last, gathered>>

\* while len(Et) < len(V) - 1: a new round starts with an empty Ep and the
\* roots connected_components() returns; otherwise the function returns
WhileTest ==
    /\ pc = "while"
    /\ IF Len(Et) < n - 1
       THEN /\ Ep' = [queue |-> <<>>, index |-> 0]
            /\ comps' = Ascending(Roots(subgraphs))
            /\ subgraphs' = AllCompressed(subgraphs)
            /\ pc' = "gather"
       ELSE /\ pc' = "done"
            /\ UNCHANGED <<Ep, comps, subgraphs>>
    /\ UNCHANGED <<merge, n, coords, budget, k_cache, Et, rtree, state, iv, fk, last, gathered>>

\* phase P1, one component C of the for loop
Gather ==
    /\ pc = "gather"
    /\ comps # <<>>
    /\ LET C == Head(comps)
           q0 == QueueOf(subgraphs, C)
           q_top == PQtop(q0.queue)
       IN  IF q_top = <<>>
           THEN /\ comps' = Tail(comps)
                /\ UNCHANGED <<subgraphs, k_cache, Ep, pc, fk, gathered>>
           ELSE LET cs == SeqRange(component_set(subgraphs, q_top[1]))
                    dj == V \ cs
                    g  == gather_loop(q0.queue, q0.index, k_cache, q_top[1], q_top[2], cs, dj)
                    dm == hav_dist(coords[g.v], coords[g.vm])
                IN  /\ subgraphs' = SetQueue(subgraphs, C, g.queue, g.index)
                    /\ k_cache' = g.kc
                    /\ IF g.found
                       THEN /\ Ep' = PQpush(Ep.queue, Ep.index, <<g.v, g.vm, dm>>, dm)
                            /\ gathered' = gathered \cup {<<g.v, g.vm>>}
                            /\ comps' = Tail(comps)
                            /\ UNCHANGED <<pc, fk>>
                       ELSE /\ pc' = "FNNd"
                            /\ fk' = g.k
                            /\ UNCHANGED <<Ep, comps, gathered>>
    /\ UNCHANGED <<merge, n, coords, budget, Et, rtree, state, iv, last>>

\* state = copy(Et)
GatherDone ==
    /\ pc = "gather"
    /\ comps = <<>>
    /\ state' = Et
    /\ pc' = "commit"
    /\ UNCHANGED <<merge, n, coords, budget, subgraphs, k_cache, Et, rtree, Ep, comps, iv, fk, last, gathered>>

different_sets_mut(uf, um, vm) == TRUE

\* subgraphs[um] != subgraphs[vm]
different_sets(uf, um, vm) == Root(uf.parents, um) # Root(uf.parents, vm)

has_mv_mut(uf, x, dm) == uf.mv[x] < dm

\* subgraphs.mv[x] >= dm: the budget entry of the NODE x
has_mv(uf, x, dm) == uf.mv[x] >= dm

\* phase P2, one pass of "while Ep._queue"
Commit ==
    /\ pc = "commit"
    /\ Ep.queue # <<>>
    /\ LET item == heappop_item(Ep.queue)[3]
           um == item[1]
           vm == item[2]
           dm == item[3]
           uf == getitem(getitem(subgraphs, um), vm)
           ru == Root(uf.parents, um)
           rv == Root(uf.parents, vm)
           step == [kind |-> "none", um |-> um, vm |-> vm, dm |-> dm, ru |-> ru,
                    rv |-> rv, bu |-> uf.mv[ru], bv |-> uf.mv[rv], pruned |-> <<>>,
                    roottop |-> PQtop(QueueOf(uf, ru).queue)]
       IN  /\ Ep' = [queue |-> heappop_rest(Ep.queue), index |-> Ep.index]
           /\ IF different_sets(uf, um, vm) /\ has_mv(uf, um, dm)
              THEN IF has_mv(uf, vm, dm)
                   THEN \E order \in SetOrders(union_merged(uf, um, vm)) :
                          /\ subgraphs' = union(uf, um, vm, dm, order)
                          /\ IF ~line_intersection(rtree, um, vm)
                             THEN /\ rtree' = rtree \cup {<<um, vm>>}
                                  /\ Et' = Append(Et, <<um, vm>>)
                                  /\ last' = [step EXCEPT !.kind = "accept"]
                             ELSE /\ UNCHANGED <<rtree, Et>>
                                  /\ last' = [step EXCEPT !.kind = "orphan"]
                   ELSE /\ subgraphs' = uf
                        /\ last' = [step EXCEPT !.kind = "insolvent"]
                        /\ UNCHANGED <<rtree, Et>>
              ELSE LET q == QueueOf(uf, um)
                   IN  /\ IF q.queue # <<>>
                          THEN /\ subgraphs' = SetQueue(uf, um, heappop_rest(q.queue), q.index)
                               /\ last' = [step EXCEPT !.kind = "prune",
                                                       !.pruned = heappop_item(q.queue)[3]]
                          ELSE /\ subgraphs' = uf
                               /\ last' = [step EXCEPT !.kind = "prune"]
                       /\ UNCHANGED <<rtree, Et>>
    /\ UNCHANGED <<merge, n, coords, budget, k_cache, state, comps, iv, fk, pc, gathered>>

\* if Et == state: break; else the while test again
RoundEnd ==
    /\ pc = "commit"
    /\ Ep.queue = <<>>
    /\ pc' = IF Et = state THEN "done" ELSE "while"
    /\ UNCHANGED <<merge, n, coords, budget, subgraphs, k_cache, Et, rtree, Ep, state, comps, iv, fk, last, gathered>>

\* a FNNd call whose while loop can no longer end keeps raising k
FNNdSpin ==
    /\ pc = "FNNd"
    /\ fk < n + SpinBound
    /\ fk' = fk + 1
    /\ UNCHANGED <<merge, n, coords, budget, subgraphs, k_cache, Et, rtree, Ep, state, comps, iv, pc, last, gathered>>

Next ==
    \/ Build
    \/ InitNode
    \/ InitDone
    \/ WhileTest
    \/ Gather
    \/ GatherDone
    \/ Commit
    \/ RoundEnd
    \/ FNNdSpin

\* ---------------------------------------------------------------------------
\* the inputs
\* ---------------------------------------------------------------------------
GridPoint(i) == <<i \div (GridY + 1), i % (GridY + 1)>>
NumPoints == (GridX + 1) * (GridY + 1)

\* node ids follow the order of the points
Placements(m) ==
    {[v \in 0 .. (m - 1) |-> GridPoint(f[v])] :
        f \in {g \in [0 .. (m - 1) -> 0 .. (NumPoints - 1)] :
                  \A a, b \in 0 .. (m - 1) : a < b => g[a] < g[b]}}

BudgetSet == {i * BudgetStep : i \in 0 .. BudgetLevels}

InitLocals ==
    /\ subgraphs = EmptyUF
    /\ k_cache = <<>>
    /\ Et = <<>>
    /\ rtree = {}
    /\ Ep = [queue |-> <<>>, index |-> 0]
    /\ state = <<>>
    /\ comps = <<>>
    /\ iv = 0
    /\ fk = 0
    /\ pc = "start"
    /\ last = NoStep
    /\ gathered = {}

NoMerge == [edges |-> {}, subs |-> <<>>, fakes |-> <<>>, idx |-> 0]

\* up to MaxNodes nodes anywhere on the grid, each penniless or with a
\* budget that pays for any edge of the grid
InitGrid ==
    /\ merge = NoMerge
    /\ n \in 0 .. MaxNodes
    /\ coords \in Placements(n)
    /\ budget \in [0 .. (n - 1) -> BudgetSet]
    /\ InitLocals

\* larger layouts: a column of three nodes with two outliers (to the right;
\* on both sides) and a row of four nodes with two nodes above it
ColumnRight == <<(<<1, 0>>), (<<1, 1>>), (<<1, 2>>), (<<2, 0>>), (<<3, 2>>)>>
ColumnSides == <<(<<0, 2>>), (<<1, 0>>), (<<1, 1>>), (<<1, 2>>), (<<3, 1>>)>>
RowOfFour == <<(<<3, 0>>), (<<0, 0>>), (<<1, 2>>), (<<1, 0>>), (<<2, 2>>), (<<2, 0>>)>>

Layouts == {ColumnRight, ColumnSides, RowOfFour}

\* budgets that pay for 0 .. LayoutBudgetSteps grid steps
LayoutBudgets == {i * HavUnit : i \in 0 .. LayoutBudgetSteps}

InitLayout ==
    /\ \E l \in Layouts :
          /\ n = Len(l)
          /\ coords = [v \in 0 .. (Len(l) - 1) |-> l[v + 1]]
    /\ budget \in [0 .. (n - 1) -> LayoutBudgets]
    /\ merge = NoMerge
    /\ InitLocals

\* a column of three nodes with one node to the right of its foot, and
\* budgets that pay for one or for three grid steps
ColumnAndOutlier == <<(<<0, 0>>), (<<0, 1>>), (<<0, 2>>), (<<2, 0>>)>>

OutlierBudgets == {HavUnit, BudgetStep}

InitOutlier ==
    /\ n = Len(ColumnAndOutlier)
    /\ coords = [v \in 0 .. (Len(ColumnAndOutlier) - 1) |-> ColumnAndOutlier[v + 1]]
    /\ budget \in [0 .. (n - 1) -> OutlierBudgets]
    /\ merge = NoMerge
    /\ InitLocals

Init == InitGrid \/ InitLayout \/ InitOutlier

Spec == Init /\ [][Next]_vars

\* ---------------------------------------------------------------------------
\* NetworkBuild.grid_settlement_merge: the existing grid seeds the UnionFind
\* ---------------------------------------------------------------------------
\* np.inf: a budget above every finite sum of budgets
Infinity == 1000

\* grid node i carries the label 'grid-i'; a label compares above every
\* integer node id, which the offset keeps
GridBase == 100
GridLabel(i) == GridBase + i

\* the grid's vertices: the corners of a square
GridCoord(g) ==
    IF g = GridLabel(0) THEN <<0, 0>>
    ELSE IF g = GridLabel(1) THEN <<2, 0>>
    ELSE IF g = GridLabel(2) THEN <<0, 2>>
    ELSE <<2, 2>>

\* the sides of the square; a grid is a non-empty set of them
GridSides ==
    {<<GridLabel(0), GridLabel(1)>>, <<GridLabel(1), GridLabel(3)>>,
     <<GridLabel(2), GridLabel(3)>>, <<GridLabel(0), GridLabel(2)>>}

GridNodes(edges) == {e[1] : e \in edges} \cup {e[2] : e \in edges}

RECURSIVE GridReach(_, _)
GridReach(S, edges) ==
    LET T == S \cup {e[2] : e \in {f \in edges : f[1] \in S}}
                 \cup {e[1] : e \in {f \in edges : f[2] \in S}}
    IN  IF T = S THEN S ELSE GridReach(T, edges)

\* nx.connected_components(grid): a list of node lists, in no promised order
RECURSIVE SubgridLists(_, _)
SubgridLists(nodes, edges) ==
    IF nodes = {} THEN {<<>>}
    ELSE LET first == CHOOSE x \in nodes : \A y \in nodes : x <= y
             comp == GridReach({first}, edges)
         IN  {<<o>> \o rest : o \in Orders(comp),
                              rest \in SubgridLists(nodes \ comp, edges)}

\* squared distance of point c to the box b (0 inside it)
BoxDist(b, c) ==
    LET dx == Max2(Max2(b[1] - c[1], c[1] - b[3]), 0)
        dy == Max2(Max2(b[2] - c[2], c[2] - b[4]), 0)
    IN  dx * dx + dy * dy

\* rtree.nearest(coord).next(): a grid edge whose bounding box is nearest
NearestEdges(edges, c) ==
    {e \in edges : \A f \in edges :
        BoxDist(make_bounding_box(GridCoord(e[1]), GridCoord(e[2])), c)
            <= BoxDist(make_bounding_box(GridCoord(f[1]), GridCoord(f[2])), c)}

\* "Build the subgrid components": the body of the loop for one subgrid
RECURSIVE seed_loop(_, _, _)
seed_loop(uf, first, rest) ==
    IF rest = <<>> THEN uf
    ELSE seed_loop(union(getitem(uf, Head(rest)), first, Head(rest), 0, <<>>),
                   first, Tail(rest))

seed_subgrid(uf, sub) == seed_loop(getitem(uf, sub[1]), sub[1], Tail(sub))

\* fake_id = last_real + idx
fake_id(idx) == (n - 1) + idx

\* the rtree of the grid edges; the coordinates of the input nodes are
\* stacked, which raises ValueError when there is none
MergeStart ==
    /\ pc = "grid_settlement_merge"
    /\ rtree' = merge.edges
    /\ pc' = IF n = 0 THEN "raise" ELSE "project"
    /\ UNCHANGED <<merge, n, coords, budget, subgraphs, k_cache, Et, Ep, state, comps, iv, fk, last, gathered>>

\* project_to_grid, one coord: the node is projected onto the nearest grid
\* edge; the pair (edge, projected point) is kept unless it is already there
\* (whether two nodes project to the same point of an edge is left open)
ProjectNode ==
    /\ pc = "project"
    /\ iv < n
    /\ \E e \in NearestEdges(merge.edges, coords[iv]) :
         \E kept \in BOOLEAN :
           /\ e \notin SeqRange(merge.fakes) => kept
           /\ merge' = [merge EXCEPT !.fakes = IF kept THEN Append(@, e) ELSE @]
    /\ iv' = iv + 1
    /\ UNCHANGED <<n, coords, budget, subgraphs, k_cache, Et, rtree, Ep, state, comps, fk, pc, last, gathered>>

\* subgrids = nx.connected_components(grid); subgraphs = UnionFind(big)
ProjectDone ==
    /\ pc = "project"
    /\ iv = n
    /\ \E subs \in SubgridLists(GridNodes(merge.edges), merge.edges) :
         merge' = [merge EXCEPT !.subs = subs]
    /\ subgraphs' = EmptyUF
    /\ pc' = "subgrids"
    /\ UNCHANGED <<n, coords, budget, k_cache, Et, rtree, Ep, state, comps, iv, fk, last, gathered>>

\* for sub in subgrids: the nodes of sub are united with sub[0], at d = 0
SeedSubgrid ==
    /\ pc = "subgrids"
    /\ merge.subs # <<>>
    /\ subgraphs' = seed_subgrid(subgraphs, Head(merge.subs))
    /\ merge' = [merge EXCEPT !.subs = Tail(@)]
    /\ UNCHANGED <<n, coords, budget, k_cache, Et, rtree, Ep, state, comps, iv, fk, pc, last, gathered>>

SubgridsDone ==
    /\ pc = "subgrids"
    /\ merge.subs = <<>>
    /\ merge' = [merge EXCEPT !.idx = 1]
    /\ pc' = "fakes"
    /\ UNCHANGED <<n, coords, budget, subgraphs, k_cache, Et, rtree, Ep, state, comps, iv, fk, last, gathered>>

\* for idx, ((u, v), fake) in enumerate(fake_nodes, 1): the assertion and
\* big.add_node(fake_id, coords=fake, mv=np.inf)
FakeAdd ==
    /\ pc = "fakes"
    /\ merge.idx <= Len(merge.fakes)
    /\ LET u == merge.fakes[merge.idx][1]
           v == merge.fakes[merge.idx][2]
           uf == getitem(getitem(subgraphs, u), v)
       IN  /\ subgraphs' = uf
           /\ IF Root(uf.parents, u) = Root(uf.parents, v)
              THEN /\ budget' = budget @@ (fake_id(merge.idx) :> Infinity)
                   /\ pc' = "fake_union"
              ELSE /\ pc' = "AssertionError"
                   /\ UNCHANGED budget
    /\ UNCHANGED <<merge, n, coords, k_cache, Et, rtree, Ep, state, comps, iv, fk, last, gathered>>

\* subgraphs.union(fake_id, u, 0)
FakeUnion ==
    /\ pc = "fake_union"
    /\ subgraphs' = union(subgraphs, fake_id(merge.idx), merge.fakes[merge.idx][1], 0, <<>>)
    /\ merge' = [merge EXCEPT !.idx = @ + 1]
    /\ pc' = "fakes"
    /\ UNCHANGED <<n, coords, budget, k_cache, Et, rtree, Ep, state, comps, iv, fk, last, gathered>>

\* the grid's edges and nodes are taken out of big; big, subgraphs and rtree
\* are returned
MergeReturn ==
    /\ pc = "fakes"
    /\ merge.idx > Len(merge.fakes)
    /\ budget' = [x \in DOMAIN budget \ GridNodes(merge.edges) |-> budget[x]]
    /\ pc' = "merged"
    /\ UNCHANGED <<merge, n, coords, subgraphs, k_cache, Et, rtree, Ep, state, comps, iv, fk, last, gathered>>

NextMerge ==
    \/ MergeStart
    \/ ProjectNode
    \/ ProjectDone
    \/ SeedSubgrid
    \/ SubgridsDone
    \/ FakeAdd
    \/ FakeUnion
    \/ MergeReturn

\* a grid of one to four sides of the square (mv 0 on its nodes, as
\* setup_grid sets it) and up to MaxNet input nodes on the points around it
InitMerge ==
    /\ n \in 0 .. MaxNet
    /\ coords \in Placements(n)
    /\ \E edges \in (SUBSET GridSides) \ {{}} :
         /\ merge = [NoMerge EXCEPT !.edges = edges]
         /\ \E b \in [0 .. (n - 1) -> BudgetSet] :
              budget = [x \in (0 .. (n - 1)) \cup GridNodes(edges) |->
                           IF x \in GridNodes(edges) THEN 0 ELSE b[x]]
    /\ subgraphs = EmptyUF
    /\ k_cache = <<>>
    /\ Et = <<>>
    /\ rtree = {}
    /\ Ep = [queue |-> <<>>, index |-> 0]
    /\ state = <<>>
    /\ comps = <<>>
    /\ iv = 0
    /\ fk = 0
    /\ pc = "grid_settlement_merge"
    /\ last = NoStep
    /\ gathered = {}

SpecMerge == InitMerge /\ [][NextMerge]_vars

\* ---------------------------------------------------------------------------
\* what the properties speak about
\* ---------------------------------------------------------------------------
RECURSIVE SumOver(_, _)
SumOver(S, f) ==
    IF S = {} THEN 0
    ELSE LET x == CHOOSE y \in S : TRUE IN f[x] + SumOver(S \ {x}, f)

Registered == DOMAIN subgraphs.parents
find(x) == Root(subgraphs.parents, x)
CurrentRoots == {find(x) : x \in Registered}
Members(r) == {x \in Registered : find(x) = r}

\* the local Et exists once the first loop is over
Running == pc \in {"while", "gather", "commit", "done", "FNNd"} /\ iv = n

EdgeLen(e) == hav_dist(coords[e[1]], coords[e[2]])
EtLength == SumOver(1 .. Len(Et), [i \in 1 .. Len(Et) |-> EdgeLen(Et[i])])

\* the true ledger of the component of root r
Ledger(r) ==
    LET inner == {i \in 1 .. Len(Et) : find(Et[i][1]) = r /\ find(Et[i][2]) = r}
    IN  SumOver(Members(r), budget) - SumOver(inner, [i \in inner |-> EdgeLen(Et[i])])

\* nodes joined by a path of the first m accepted edges
RECURSIVE Reach(_, _)
Reach(S, m) ==
    LET T == S \cup {w \in V : \E i \in 1 .. m :
                        \/ Et[i][1] \in S /\ Et[i][2] = w
                        \/ Et[i][2] \in S /\ Et[i][1] = w}
    IN  IF T = S THEN S ELSE Reach(T, m)

Connected(x, y) == y \in Reach({x}, Len(Et))

\* ---- geometry, stated without the code's tests ----
Orient(a, b, c) == Cross2(Sub2(b, a), Sub2(c, a))
Between(a, b, c) ==
    /\ Orient(a, b, c) = 0
    /\ Min2(a[1], b[1]) <= c[1] /\ c[1] <= Max2(a[1], b[1])
    /\ Min2(a[2], b[2]) <= c[2] /\ c[2] <= Max2(a[2], b[2])
Sign(x) == IF x > 0 THEN 1 ELSE IF x < 0 THEN -1 ELSE 0

\* the closed segments ab and cd have a point in common
SegmentsMeet(a, b, c, d) ==
    \/ /\ Sign(Orient(a, b, c)) * Sign(Orient(a, b, d)) < 0
       /\ Sign(Orient(c, d, a)) * Sign(Orient(c, d, b)) < 0
    \/ Between(a, b, c) \/ Between(a, b, d) \/ Between(c, d, a) \/ Between(c, d, b)

\* a point p # q of segment cd lies on segment ab beyond the common end q
OverlapsFrom(q, a, c) ==
    /\ Orient(q, a, c) = 0
    /\ (a[1] - q[1]) * (c[1] - q[1]) + (a[2] - q[2]) * (c[2] - q[2]) > 0

\* ab and cd have a common point that is not just an endpoint of both
Crossing(a, b, c, d) ==
    /\ SegmentsMeet(a, b, c, d)
    /\ LET shared == {a, b} \cap {c, d}
       IN  \/ shared = {}
           \/ Cardinality(shared) = 2
           \/ /\ Cardinality(shared) = 1
              /\ LET q == CHOOSE x \in shared : TRUE
                     o1 == CHOOSE x \in {a, b} : x # q
                     o2 == CHOOSE x \in {c, d} : x # q
                 IN  OverlapsFrom(q, o1, o2)

EdgesCross(e1, e2) ==
    Crossing(coords[e1[1]], coords[e1[2]], coords[e2[1]], coords[e2[2]])

\* ---------------------------------------------------------------------------
\* properties
\* ---------------------------------------------------------------------------

\* C1 (solvency at commit): a commit step that unioned the components of
\* u and v and appended (u, v) of length d found, right before the union, a
\* budget of at least d recorded for the root of u and for the root of v.
C1_SolvencyAtCommit ==
    last.kind = "accept" => last.bu >= last.dm /\ last.bv >= last.dm

\* C2 (budget ledger): once the run is past its first loop, the budget
\* recorded for every root equals the initial budgets of the members of its
\* component minus the lengths of the accepted edges inside the component.
C2_BudgetLedger ==
    Running => \A r \in CurrentRoots : subgraphs.mv[r] = Ledger(r)

\* C3 (ledger conservation): the budgets recorded for the current roots plus
\* the lengths of the accepted edges keep the value they had before the first
\* commit, the sum of the initial budgets.
C3_LedgerConservation ==
    Running => SumOver(CurrentRoots, subgraphs.mv) + EtLength = SumOver(V, budget)

\* C4 (planarity): two accepted edges have a point in common only where it
\* is an endpoint of both; collinear accepted edges do not overlap.
C4_Planarity ==
    \A i, j \in 1 .. Len(Et) : i < j => ~EdgesCross(Et[i], Et[j])

\* C5 (connectivity): once the run is past its first loop, two nodes have
\* the same union-find root exactly if a path of accepted edges joins them.
C5_Connectivity ==
    Running => \A x, y \in V : (find(x) = find(y)) <=> Connected(x, y)

\* C6 (forest): no accepted edge joins two nodes that the edges accepted
\* before it already connect (so: no cycle, no self-loop, no repeated edge).
C6_Forest ==
    \A i \in 1 .. Len(Et) : Et[i][2] \notin Reach({Et[i][1]}, i - 1)

\* a finished run that accepted a spanning tree of four or more nodes
C6_Witness ==
    /\ pc = "done"
    /\ n >= 4
    /\ Len(Et) = n - 1
    /\ Cardinality(CurrentRoots) = 1

\* C7 (foreign correctness): a commit step that appended an edge (u, v)
\* found find(u) # find(v) right before its union.
C7_ForeignCorrectness ==
    last.kind = "accept" => last.ru # last.rv

\* a second edge committed in a round in which an edge was already committed
C7_Witness ==
    /\ last.kind = "accept"
    /\ pc = "commit"
    /\ Len(Et) >= Len(state) + 2

\* C8 (termination): every loop of a run ends; in particular the neighbour
\* search never raises k beyond the number of nodes, from where the kd-tree
\* answers every query with the missing-neighbour index and the search can
\* no longer find a member of its allowed set.
C8_Termination ==
    ~(pc = "FNNd" /\ fk > n)

\* C9 (the accepted edges only grow): every step keeps the accepted edges as
\* a prefix of the new sequence, and a run never holds more than |V| - 1 of
\* them.
C9_EtGrows ==
    /\ [][/\ Len(Et) <= Len(Et')
          /\ SubSeq(Et', 1, Len(Et)) = Et]_vars
    /\ [](Running => Len(Et) <= n - 1)

\* a third round begins on top of the edges of the first two
C9_Witness ==
    /\ pc = "gather"
    /\ Len(state) >= 2
    /\ Len(Et) > Len(state)
    /\ Len(Et) < n - 1

\* the length of a minimum spanning tree of V (Prim, grown from the set S)
RECURSIVE PrimLength(_)
PrimLength(S) ==
    IF S = V \/ S = {} THEN 0
    ELSE LET cut == {e \in S \X (V \ S) : TRUE}
             best == CHOOSE e \in cut : \A f \in cut : EdgeLen(e) <= EdgeLen(f)
         IN  EdgeLen(best) + PrimLength(S \cup {best[2]})

MSTLength == IF n = 0 THEN 0 ELSE PrimLength({0})

\* every node alone can pay for the longest segment between two nodes
AmpleBudgets == \A v, a, b \in V : budget[v] >= EdgeLen(<<a, b>>)

\* no two different segments proposed as candidates during the run cross
NoCandidateCrosses ==
    \A c1, c2 \in gathered :
        {c1[1], c1[2]} # {c2[1], c2[2]} => ~EdgesCross(c1, c2)

\* C10 (minimality): a finished run with ample budgets during which no
\* candidate segment crossed another returns edges of the total length of a
\* minimum spanning tree of V.
C10_Minimality ==
    pc = "done" /\ AmpleBudgets /\ NoCandidateCrosses => EtLength = MSTLength

\* C11 (spanning with ample budgets): for two or more nodes with ample
\* budgets, as long as no candidate segment crossed another the neighbour
\* search never gets stuck, and the finished run holds |V| - 1 accepted
\* edges with all nodes under one root.
C11_Spanning ==
    (n >= 2 /\ AmpleBudgets /\ NoCandidateCrosses) =>
        /\ ~(pc = "FNNd" /\ fk > n)
        /\ pc = "done" => (Len(Et) = n - 1 /\ Cardinality(CurrentRoots) = 1)

\* a finished run on four nodes with ample budgets and no crossing candidates
C11_Witness ==
    /\ pc = "done"
    /\ n = 4
    /\ AmpleBudgets
    /\ NoCandidateCrosses
    /\ Cardinality(gathered) >= 5

\* C12 (degenerate inputs): a run on no node or on a single node neither
\* raises an error nor enters a neighbour search that cannot end; it reaches
\* its end with no accepted edge.
C12_Degenerate ==
    n <= 1 => /\ pc \notin {"raise", "FNNd"}
              /\ pc = "done" => Et = <<>>

\* the grid's nodes, as the seeding registered them
AnchorNodes == GridNodes(merge.edges)

\* C13 (anchor seeding): in the partition grid_settlement_merge returns,
\* the root of every grid node holds an infinite budget, the nodes of one
\* connected grid component share a root, and every fake node shares the
\* root of both ends of the grid edge it was projected onto.
C13_AnchorSeeding ==
    pc = "merged" =>
        /\ \A g \in AnchorNodes : subgraphs.mv[find(g)] >= Infinity
        /\ \A g, h \in AnchorNodes :
              h \in GridReach({g}, merge.edges) => find(g) = find(h)
        /\ \A i \in 1 .. Len(merge.fakes) :
              /\ find(fake_id(i)) = find(merge.fakes[i][1])
              /\ find(fake_id(i)) = find(merge.fakes[i][2])

\* C14 (union budget rule): after a commit step called union(u, v, d), the
\* budget recorded for the surviving root is the sum of the budgets the two
\* roots held right before the call, minus d.
C14_UnionBudget ==
    last.kind \in {"accept", "orphan"} =>
        subgraphs.mv[find(last.um)] = (last.bu + last.bv) - last.dm

\* C15 (queue order after merge): the entry top and pop return from the
\* queue of any node has a priority that is minimal among the entries of
\* that queue.
C15_TopIsMinimal ==
    \A x \in Registered :
        LET q == QueueOf(subgraphs, x).queue
        IN  q # <<>> => \A i \in 1 .. Len(q) : q[1][1] <= q[i][1]

\* how often the candidate with this priority and item is held by queue q
HeldCount(q, entry) ==
    Cardinality({i \in 1 .. Len(q) : <<q[i][1], q[i][3]>> = entry})

HeldEntries(q) == {<<q[i][1], q[i][3]>> : i \in 1 .. Len(q)}

\* a step that united two components
UnionStep == Cardinality(Roots(subgraphs')) < Cardinality(Roots(subgraphs))

\* C16 (queue transfer on union): a step that unites two components leaves
\* in the survivor's queue exactly the candidates the queues of the two
\* roots held before (each as often as before), leaves the absorbed root's
\* own queue object empty, and makes the handles of both former roots denote
\* one queue.
C16_QueueTransfer ==
    [][UnionStep =>
        LET ru == last'.ru
            rv == last'.rv
            before1 == QueueOf(subgraphs, ru).queue
            before2 == QueueOf(subgraphs, rv).queue
            survivor == Root(subgraphs'.parents, ru)
            absorbed == IF survivor = ru THEN rv ELSE ru
            after == QueueOf(subgraphs', survivor).queue
        IN  /\ HeldEntries(after) = HeldEntries(before1) \cup HeldEntries(before2)
            /\ \A e \in HeldEntries(after) :
                  HeldCount(after, e) = HeldCount(before1, e) + HeldCount(before2, e)
            /\ subgraphs'.pq[absorbed].queue = <<>>
            /\ subgraphs'.queues[ru] = subgraphs'.queues[rv]
            /\ PQtop(QueueOf(subgraphs', ru).queue) = PQtop(QueueOf(subgraphs', rv).queue)
      ]_vars

\* right after a union of two components that held three candidates or more
C16_Witness ==
    /\ last.kind \in {"accept", "orphan"}
    /\ Len(QueueOf(subgraphs, last.ru).queue) >= 3
    /\ subgraphs.queues[last.ru] = subgraphs.queues[last.rv]
    /\ \E x \in Registered : subgraphs.pq[x].queue = <<>> /\ subgraphs.queues[x] # x

\* C17 (pruning on rejection): a commit step that refused its candidate
\* (u, v), for a cycle or for the budget of either side, popped the top of
\* the queue of find(u), and the entry it removed was (u, v).
C17_PruneOnRejection ==
    last.kind \in {"prune", "insolvent"} =>
        /\ last.pruned = <<last.um, last.vm>>
        /\ last.pruned = last.roottop

\* the candidate a step of phase P1 pushed onto the round queue
GatherStep == pc = "gather" /\ Ep'.index = Ep.index + 1
NewCandidate == (CHOOSE e \in SeqRange(Ep'.queue) : e[2] = Ep.index)[3]

\* C18 (cheapest outgoing edge): the candidate (v, w) gathered for a
\* component leaves the component, and no pair of a member and a foreign
\* node is nearer (in squared distance) than v and w.
C18_CheapestOutgoing ==
    [][GatherStep =>
        LET v == NewCandidate[1]
            w == NewCandidate[2]
            cs == SeqRange(component_set(subgraphs, v))
        IN  /\ w \notin cs
            /\ \A a \in cs, b \in V \ cs :
                  sq_dist(coords[v], coords[w]) <= sq_dist(coords[a], coords[b])
      ]_vars

\* every candidate held by the queue of a component
QueuedItems ==
    UNION {{QueueOf(subgraphs, x).queue[i][3] :
                i \in 1 .. Len(QueueOf(subgraphs, x).queue)} : x \in Registered}

\* a and b are in one component (a node not yet registered is on its own)
SameComponent(a, b) ==
    \/ a = b
    \/ a \in Registered /\ b \in Registered /\ find(a) = find(b)

\* C19 (foreign nearest neighbour): the k remembered for a node v is the
\* rank of a node, every node nearer to v than that rank (v itself aside) is
\* in v's component, so that no allowed node was skipped and the k is the
\* smallest that succeeded; and the neighbour queued for v is the node of
\* that rank, the nearest node outside the component at the time of the
\* search.
C19_ForeignNearest ==
    /\ \A v \in DOMAIN k_cache :
          /\ k_cache[v] >= 2 /\ k_cache[v] <= n
          /\ \A j \in 2 .. (k_cache[v] - 1) :
                SameComponent(KthNearest(v, j), v)
    /\ \A c \in QueuedItems :
          /\ c[1] \in DOMAIN k_cache
          /\ c[2] = KthNearest(c[1], k_cache[c[1]])
          /\ c[2] # c[1]

\* a node whose search was resumed from its remembered k and moved on by
\* two ranks or more
C19_Witness ==
    \E c \in QueuedItems :
        /\ k_cache[c[1]] >= 4
        /\ ~SameComponent(c[2], c[1])
        /\ Len(Et) >= 2

\* C20 (collinear overlap detection): for two nodes a # b of the candidate
\* segment and two nodes c # d of a stored segment whose four points lie on
\* one line, line_intersection against the stored segment alone returns True
\* exactly when the two segments have more than one point in common; pairs
\* with exactly one common endpoint are left to the shared-endpoint
\* exception and are not constrained here.
C20_CollinearOverlap ==
    \A a \in V, b \in V, c \in V, d \in V :
        (/\ a # b /\ c # d
         /\ Orient(coords[a], coords[b], coords[c]) = 0
         /\ Orient(coords[a], coords[b], coords[d]) = 0
         /\ Cardinality({a, b} \cap {c, d}) # 1)
        => (line_intersection({<<c, d>>}, a, b)
              <=> Crossing(coords[a], coords[b], coords[c], coords[d]))

\* the round queue has given out a candidate in the running round
ExaminedInRound == pc = "commit" /\ Len(Ep.queue) < Ep.index

\* C21 (commit order within a round): during phase P2 the first entry of Ep
\* has the least haversine length of the entries still queued, no entry
\* still queued is shorter than the candidate examined last in this round,
\* and the edges appended to Et since the round's copy (state) was taken
\* stand in non-decreasing length.
C21_CommitOrder ==
    pc = "commit" =>
        /\ \A i \in 1 .. Len(Ep.queue) : Ep.queue[1][1] <= Ep.queue[i][1]
        /\ ExaminedInRound =>
              \A i \in 1 .. Len(Ep.queue) : last.dm <= Ep.queue[i][1]
        /\ \A i \in (Len(state) + 1) .. Len(Et) : \A j \in i .. Len(Et) :
              EdgeLen(Et[i]) <= EdgeLen(Et[j])

\* a round accepted two edges of different length, and a longer candidate
\* had been queued before the shorter one
C21_Witness ==
    /\ pc = "commit"
    /\ Len(Et) >= Len(state) + 2
    /\ EdgeLen(Et[Len(Et) - 1]) < EdgeLen(Et[Len(Et)])
    /\ \E c \in gathered, e \in gathered :
          /\ c[1] < e[1]
          /\ EdgeLen(c) > EdgeLen(e)
          /\ {Et[Len(Et) - 1], Et[Len(Et)]} = {c, e}

\* the member list of root r names exactly the members of r, each once, and
\* the weight of r is the length of the list
ListedExactly(r) ==
    LET l == component_set(subgraphs, r)
    IN  /\ SeqRange(l) = Members(r)
        /\ Len(l) = Cardinality(Members(r))
        /\ subgraphs.weights[r] = Len(l)

\* C22 (partition bookkeeping): in every state each current root's member
\* list is exactly the set of registered elements whose find is that root,
\* without repeats, and its weight is the length of the list; and a step
\* that unites two components keeps as root the one of the two former
\* roots whose weight was not the smaller.
C22_Partition ==
    /\ [](\A r \in CurrentRoots : ListedExactly(r))
    /\ [][UnionStep =>
            LET ru == last'.ru
                rv == last'.rv
                survivor == Root(subgraphs'.parents, ru)
                absorbed == IF survivor = ru THEN rv ELSE ru
            IN  /\ survivor \in {ru, rv}
                /\ Root(subgraphs'.parents, rv) = survivor
                /\ subgraphs.weights[survivor] >= subgraphs.weights[absorbed]
                /\ subgraphs'.weights[survivor] =
                      subgraphs.weights[ru] + subgraphs.weights[rv]
         ]_vars

\* right after a union in which the candidate's own component was the
\* lighter one and was absorbed into a component of two or more members
C22_Witness ==
    /\ last.kind \in {"accept", "orphan"}
    /\ find(last.um) = last.rv
    /\ subgraphs.weights[last.ru] < subgraphs.weights[last.rv] - subgraphs.weights[last.ru]
    /\ Len(component_set(subgraphs, last.rv)) >= 3

\* C23 (budgets are never overdrawn): the budget recorded for a registered
\* node, root or not, is never negative and never above the true ledger of
\* the node's component, and no component's true ledger is negative.
C23_NeverOverdrawn ==
    /\ \A x \in Registered :
          /\ subgraphs.mv[x] >= 0
          /\ subgraphs.mv[x] <= Ledger(find(x))
    /\ \A r \in CurrentRoots : Ledger(r) >= 0

\* after two or more accepted edges, with a member whose recorded budget
\* has fallen behind its component's ledger and a root whose record is exact
C23_Witness ==
    /\ last.kind = "accept"
    /\ Len(Et) >= 2
    /\ \E x \in Registered : subgraphs.mv[x] < Ledger(find(x))
    /\ \E r \in CurrentRoots :
          /\ subgraphs.mv[r] = Ledger(r)
          /\ Ledger(r) < SumOver(Members(r), budget)

\* the while loop was left by "if Et == state: break"
HaltedEarly == pc = "done" /\ Len(Et) < n - 1

\* what phase P1 of one more round would gather for component C in the
\* current state: the body of "for C in subgraphs.connected_components()"
RoundCandidate(C) ==
    LET q0 == QueueOf(subgraphs, C)
        q_top == PQtop(q0.queue)
    IN  IF q_top = <<>>
        THEN [found |-> FALSE, um |-> 0, vm |-> 0, dm |-> 0]
        ELSE LET cs == SeqRange(component_set(subgraphs, q_top[1]))
                 g  == gather_loop(q0.queue, q0.index, k_cache, q_top[1], q_top[2],
                                   cs, V \ cs)
             IN  [found |-> g.found, um |-> g.v, vm |-> g.vm,
                  dm |-> hav_dist(coords[g.v], coords[g.vm])]

\* the tests of phase P2 that lead to "Et += [(um, vm)]"
WouldAccept(c) ==
    /\ c.found
    /\ different_sets(subgraphs, c.um, c.vm)
    /\ has_mv(subgraphs, c.um, c.dm)
    /\ has_mv(subgraphs, c.vm, c.dm)
    /\ ~line_intersection(rtree, c.um, c.vm)

\* C24 (halting is a fix-point): when the loop was left because a round
\* added no edge, no component's candidate of one more round would pass the
\* tests of phase P2, so one more round would add no edge either.
C24_FixPoint ==
    HaltedEarly => \A C \in Roots(subgraphs) : ~WouldAccept(RoundCandidate(C))

====
